---- MODULE Spec2Model ----
(***************************************************************************)
(* The comparison slice of json-sync-diff (the Redux store's `comparison`  *)
(* reducer and the four comparison functions it drives), as a state        *)
(* machine.                                                                *)
(*                                                                         *)
(* JSON values are records [t, s, kv]: t is the JavaScript type, s the     *)
(* text of a primitive, kv the ordered list of properties of an object (or *)
(* of the elements of an array, keyed "0", "1", ...).  A JavaScript object *)
(* keeps its keys in insertion order, and so does kv.                      *)
(*                                                                         *)
(* A path string is held as the list of its dot-separated segments: two    *)
(* path strings are equal exactly when their segment lists are.            *)
(***************************************************************************)
EXTENDS Integers, Sequences, FiniteSets, TLC

VARIABLES
    sessions,            \* state.sessions
    activeSessionId,     \* state.activeSessionId
    selectedInstances,   \* state.selectedInstances
    baseInstanceId,      \* state.baseInstanceId
    comparisonType,      \* state.comparisonType
    customTypes,         \* state.customTypes
    currentFetchEndpoint,\* state.currentFetchEndpoint
    currentSaveEndpoint, \* state.currentSaveEndpoint
    error,               \* state.error
    stored,              \* localStorage[COMPARISON_STORAGE_KEY]
    now,                 \* the wall clock read by Date.now()
    lastRun,             \* the payload of the createComparisonSession action reduced last
    instances,           \* state.instances.instances: id and isActive of each
    storedInstances,     \* localStorage[INSTANCES_STORAGE_KEY]
    instancesData,       \* state.instances.instanceData
    status,              \* state.instances.instances[i].status, by instance id
    loading,             \* state.instances.loading
    fetchError,          \* state.instances.error
    storedData,          \* localStorage[INSTANCE_DATA_STORAGE_KEY]
    inFlight,            \* the thunks awaiting their response
    posted,              \* the postInstanceData request dispatched last
    migrationSource,     \* the Summary page's migrationSource
    migrationTarget      \* the Summary page's migrationTarget

comparisonVars == <<sessions, activeSessionId, selectedInstances, baseInstanceId,
                    comparisonType, customTypes, currentFetchEndpoint,
                    currentSaveEndpoint, error, stored, now, lastRun>>

instancesVars == <<instances, storedInstances, instancesData, status, loading,
                   fetchError, storedData, inFlight, posted>>

pageVars == <<migrationSource, migrationTarget>>

vars == <<comparisonVars, instancesVars, pageVars>>

-----------------------------------------------------------------------------
(* JSON values *)

Mk(t, s, kv) == [t |-> t, s |-> s, kv |-> kv]
Prop(k, v) == [k |-> k, v |-> v]

Num(s) == Mk("number", s, <<>>)
Str(s) == Mk("string", s, <<>>)
Bool(s) == Mk("boolean", s, <<>>)
JsNull == Mk("null", "", <<>>)
Undefined == Mk("undefined", "", <<>>)
Obj(kv) == Mk("object", "", kv)
Arr(kv) == Mk("array", "", kv)

\* The sentinel the comparison functions store for an absent unit.
MISSING == Str("MISSING")

\* null in a field that otherwise holds an id string.
null == "<null>"

Range(seq) == {seq[i] : i \in DOMAIN seq}

\* JavaScript truthiness.
Truthy(v) ==
    CASE v.t = "undefined" -> FALSE
      [] v.t = "null" -> FALSE
      [] v.t = "boolean" -> v.s = "true"
      [] v.t = "number" -> v.s # "0"
      [] v.t = "string" -> v.s # ""
      [] OTHER -> TRUE

\* typeof v === 'object'
TypeofObject(v) == v.t \in {"object", "array", "null"}

\* Array.isArray(v)
IsArray(v) == v.t = "array"

\* Object.keys(v), in insertion order.
Keys(v) == [i \in DOMAIN v.kv |-> v.kv[i].k]

\* v[k]: the property, or undefined.
Get(v, k) ==
    IF \E i \in DOMAIN v.kv : v.kv[i].k = k
    THEN v.kv[CHOOSE i \in DOMAIN v.kv : v.kv[i].k = k].v
    ELSE Undefined

\* The first value written under a key kept.
PutKeepingFirst(kv, k, v) ==
    IF \E i \in DOMAIN kv : kv[i].k = k THEN kv ELSE Append(kv, Prop(k, v))

\* kv after `o[k] = v` (or Map.set): an existing key keeps its place.
Put(kv, k, v) ==
    IF \E i \in DOMAIN kv : kv[i].k = k
    THEN [i \in DOMAIN kv |-> IF kv[i].k = k THEN Prop(k, v) ELSE kv[i]]
    ELSE Append(kv, Prop(k, v))

\* Set.add on an insertion-ordered set held as a sequence.
SetAdd(seq, x) == IF x \in Range(seq) THEN seq ELSE Append(seq, x)

\* String(v) for the values an identifier field can hold.
String(v) ==
    CASE v.t = "undefined" -> "undefined"
      [] v.t = "null" -> "null"
      [] v.t = "object" -> "[object Object]"
      [] v.t = "array" -> ""
      [] OTHER -> v.s

\* key.split('.') for the keys and field names of the model.
Segs(k) ==
    CASE k = "a.b" -> <<"a", "b">>
      [] k = "x.p" -> <<"x", "p">>
      [] OTHER -> <<k>>

\* JSON.stringify(v), as the list of its tokens.  A property whose value is
\* undefined is left out of an object; top-level undefined stays undefined.
RECURSIVE StringifyProps(_, _, _)
RECURSIVE Stringify(_)
Stringify(v) ==
    CASE v.t = "undefined" -> <<"undefined">>
      [] v.t = "null" -> <<"null">>
      [] v.t = "string" -> <<"\"", v.s, "\"">>
      [] v.t = "object" -> <<"{">> \o StringifyProps(v.kv, 1, TRUE) \o <<"}">>
      [] v.t = "array" -> <<"[">> \o StringifyProps(v.kv, 1, FALSE) \o <<"]">>
      [] OTHER -> <<v.s>>
StringifyProps(kv, i, isObject) ==
    IF i > Len(kv) THEN <<>>
    ELSE LET p == kv[i]
             rest == StringifyProps(kv, i + 1, isObject)
             sep == IF rest = <<>> THEN <<>> ELSE <<",">>
         IN  IF isObject
             THEN IF p.v.t = "undefined" THEN rest
                  ELSE <<"\"", p.k, "\"", ":">> \o Stringify(p.v) \o sep \o rest
             ELSE (IF p.v.t = "undefined" THEN <<"null">> ELSE Stringify(p.v))
                  \o sep \o rest

-----------------------------------------------------------------------------
(* Path Collector and Path Resolver *)

\* traverse(obj, currentPath), threading the insertion-ordered Set `paths`.
RECURSIVE traverse(_, _, _)
RECURSIVE traverseKeys(_, _, _, _)
\* Arrays descended into like objects, by their indexes.
traverseArraysToo(obj, currentPath, paths) ==
    IF Truthy(obj) /\ TypeofObject(obj)
    THEN traverseKeys(obj, 1, currentPath, paths)
    ELSE paths

traverse(obj, currentPath, paths) ==
    IF Truthy(obj) /\ TypeofObject(obj) /\ ~IsArray(obj)
    THEN traverseKeys(obj, 1, currentPath, paths)
    ELSE paths
traverseKeys(obj, i, currentPath, paths) ==
    IF i > Len(obj.kv) THEN paths
    ELSE LET newPath == currentPath \o Segs(obj.kv[i].k)
         IN  traverseKeys(obj, i + 1, currentPath,
                          traverse(obj.kv[i].v, newPath, SetAdd(paths, newPath)))

\* collectPaths(objects): Array.from(paths), in insertion order.
RECURSIVE collectPathsFrom(_, _, _)
collectPathsFrom(objects, i, paths) ==
    IF i > Len(objects) THEN paths
    ELSE collectPathsFrom(objects, i + 1, traverse(objects[i], <<>>, paths))
collectPaths(objects) == collectPathsFrom(objects, 1, <<>>)

\* getValueAtPath(obj, path): path.split('.').reduce(...).
RECURSIVE getValueAtPath(_, _)
getValueAtPath(obj, path) ==
    IF path = <<>> THEN obj
    ELSE getValueAtPath(IF Truthy(obj) /\ TypeofObject(obj)
                        THEN Get(obj, Head(path))
                        ELSE Undefined,
                        Tail(path))

-----------------------------------------------------------------------------
(* Difference Classifier: the code shared, copy by copy, by the four       *)
(* comparison functions.                                                   *)

\* What one instance holds for a unit: found, and then the value.
Found(v) == [present |-> TRUE, v |-> v]

\* An instance that lacks the unit taken as holding undefined.
NotFoundAsFound == [present |-> TRUE, v |-> Undefined]

NotFound == [present |-> FALSE, v |-> Undefined]

\* The loop that fills values and affectedInstances and notes the base value.
RECURSIVE CollectFrom(_, _, _, _, _)
CollectFrom(instanceIds, found, base, i, acc) ==
    IF i > Len(instanceIds) THEN acc
    ELSE LET id == instanceIds[i]
             f == found[i]
             isBase == base # null /\ id = base
         IN  CollectFrom(instanceIds, found, base, i + 1,
               IF f.present
               THEN [values |-> Put(acc.values, id, f.v),
                     affectedInstances |-> Append(acc.affectedInstances, id),
                     hasBaseValue |-> acc.hasBaseValue \/ isBase,
                     baseValue |-> IF isBase THEN f.v ELSE acc.baseValue]
               ELSE [acc EXCEPT !.values = Put(acc.values, id, MISSING)])

\* The loop without its else branches: nothing is stored for an instance
\* that lacks the unit.
CollectSkippingMissing(instanceIds, found, base) ==
    LET kept == {i \in DOMAIN instanceIds : found[i].present}
        pos == [i \in 1..Cardinality(kept) |->
                  CHOOSE k \in kept : Cardinality({j \in kept : j < k}) = i - 1]
    IN  CollectFrom([i \in DOMAIN pos |-> instanceIds[pos[i]]],
                    [i \in DOMAIN pos |-> found[pos[i]]], base, 1,
                    [values |-> <<>>, affectedInstances |-> <<>>,
                     hasBaseValue |-> FALSE, baseValue |-> Undefined])

Collect(instanceIds, found, base) ==
    CollectFrom(instanceIds, found, base, 1,
                [values |-> <<>>, affectedInstances |-> <<>>,
                 hasBaseValue |-> FALSE, baseValue |-> Undefined])

\* values[id], undefined when the object has no such key.
ValueOf(values, id) ==
    IF \E i \in DOMAIN values : values[i].k = id
    THEN values[CHOOSE i \in DOMAIN values : values[i].k = id].v
    ELSE Undefined

\* What two values are compared by: JSON.stringify(v) in the generic and
\* custom functions, the value itself (===) for feature toggles.
CompareKey(v, strict) == IF strict THEN <<v.t, v.s>> ELSE Stringify(v)

\* The detection without the branch for an instance that lacks the unit.
HasDifferenceAmongPresent(c, instanceIds, base, strict) ==
    IF base # null /\ c.hasBaseValue
    THEN \E i \in DOMAIN instanceIds :
            /\ instanceIds[i] # base
            /\ LET otherValue == ValueOf(c.values, instanceIds[i])
               IN  /\ CompareKey(otherValue, strict) # CompareKey(c.baseValue, strict)
                   /\ otherValue # MISSING
    ELSE Cardinality({CompareKey(c.values[i].v, strict) : i \in DOMAIN c.values}) > 1

\* "Determine if there are differences".
HasDifference(c, instanceIds, base, strict) ==
    IF base # null /\ c.hasBaseValue
    THEN \E i \in DOMAIN instanceIds :
            /\ instanceIds[i] # base
            /\ LET otherValue == ValueOf(c.values, instanceIds[i])
               IN  \/ /\ CompareKey(otherValue, strict) # CompareKey(c.baseValue, strict)
                      /\ otherValue # MISSING
                   \/ otherValue = MISSING
    ELSE Cardinality({CompareKey(c.values[i].v, strict) : i \in DOMAIN c.values}) > 1

missingInstances(values, instanceIds) ==
    SelectSeq(instanceIds, LAMBDA id : ValueOf(values, id) = MISSING)
presentInstances(values, instanceIds) ==
    SelectSeq(instanceIds, LAMBDA id : ValueOf(values, id) # MISSING)

\* The first instance as the reference, whatever the counts.
FewerMissingFirstAsBase(values, instanceIds) ==
    ValueOf(values, instanceIds[1]) = MISSING

\* missingInstances.length < presentInstances.length
FewerMissing(values, instanceIds) ==
    Len(missingInstances(values, instanceIds)) < Len(presentInstances(values, instanceIds))

\* The classification with the test on the base's own value turned round.
ClassifyBaseTurned(c, instanceIds, base, strict) ==
    LET missing == missingInstances(c.values, instanceIds)
        present == presentInstances(c.values, instanceIds)
    IN  IF Len(missing) > 0 /\ Len(present) > 0
        THEN IF base # null
             THEN IF ValueOf(c.values, base) # MISSING
                  THEN [type |-> "added",
                        description |-> <<"added in (not present in base)", Len(present)>>]
                  ELSE [type |-> "deleted",
                        description |-> <<"deleted in (present in base)", Len(missing)>>]
             ELSE IF FewerMissing(c.values, instanceIds)
                  THEN [type |-> "added",
                        description |-> <<"added in, missing in", Len(present)>>]
                  ELSE [type |-> "deleted",
                        description |-> <<"deleted in, present in", Len(missing)>>]
        ELSE [type |-> "edited", description |-> <<"", 0>>]

\* "Determine the type of difference", with the description as the template
\* chosen and the first count it names.
Classify(c, instanceIds, base, strict) ==
    LET missing == missingInstances(c.values, instanceIds)
        present == presentInstances(c.values, instanceIds)
    IN  IF Len(missing) > 0 /\ Len(present) > 0
        THEN IF base # null
             THEN IF ValueOf(c.values, base) = MISSING
                  THEN [type |-> "added",
                        description |-> <<"added in (not present in base)", Len(present)>>]
                  ELSE [type |-> "deleted",
                        description |-> <<"deleted in (present in base)", Len(missing)>>]
             ELSE IF FewerMissing(c.values, instanceIds)
                  THEN [type |-> "added",
                        description |-> <<"added in, missing in", Len(present)>>]
                  ELSE [type |-> "deleted",
                        description |-> <<"deleted in, present in", Len(missing)>>]
        ELSE IF Len(present) = Len(instanceIds)
             THEN [type |-> "edited",
                   description |->
                     IF base # null /\ c.hasBaseValue
                     THEN <<"differs from base",
                            Len(SelectSeq(instanceIds, LAMBDA id :
                                  /\ id # base
                                  /\ CompareKey(ValueOf(c.values, id), strict)
                                       # CompareKey(c.baseValue, strict)))>>
                     ELSE <<"has inconsistent values", 0>>]
             ELSE [type |-> "edited", description |-> <<"", 0>>]

\* results.push({path, type, values, affectedInstances, description})
Row(path, c, instanceIds, base, strict) ==
    LET cl == Classify(c, instanceIds, base, strict)
    IN  [path |-> path, type |-> cl.type, values |-> c.values,
         affectedInstances |-> c.affectedInstances,
         description |-> cl.description]

-----------------------------------------------------------------------------
(* The four comparison functions.  instanceData is the JavaScript object   *)
(* the reducer built: one key per instance that has a payload.             *)

Emitted(cand) == cand.emit
RowOf(cands) == [i \in DOMAIN cands |-> cands[i].row]

\* A key of a Map or a member of a Set: a string is its text; undefined and
\* null are keys of their own, not the strings "undefined" and "null".
MapKey(v) == IF v.t = "string" THEN v.s ELSE "<" \o v.t \o ">"

\* new Map(features.map(f => [f.FeatureName, f])), and the names added to
\* allFeatureNames, for one instance.
RECURSIVE featureMapFrom(_, _, _)
featureMapFrom(features, i, map) ==
    IF i > Len(features.kv) THEN map
    ELSE featureMapFrom(features, i + 1,
                        Put(map, MapKey(Get(features.kv[i].v, "FeatureName")),
                            features.kv[i].v))

\* instanceData[instanceId] || []
OrEmptyArray(v) == IF Truthy(v) THEN v ELSE Arr(<<>>)

RECURSIVE allFeatureNamesFrom(_, _, _, _)
allFeatureNamesFrom(instanceData, instanceIds, i, names) ==
    IF i > Len(instanceIds) THEN names
    ELSE LET features == OrEmptyArray(Get(instanceData, instanceIds[i]))
             own == [j \in DOMAIN features.kv |->
                        MapKey(Get(features.kv[j].v, "FeatureName"))]
             RECURSIVE addAll(_, _)
             addAll(j, acc) == IF j > Len(own) THEN acc
                               ELSE addAll(j + 1, SetAdd(acc, own[j]))
         IN  allFeatureNamesFrom(instanceData, instanceIds, i + 1, addAll(1, names))

compareFeatureToggles(instanceData, instanceIds, base) ==
    LET featureMap(id) ==
            featureMapFrom(OrEmptyArray(Get(instanceData, id)), 1, <<>>)
        allFeatureNames == allFeatureNamesFrom(instanceData, instanceIds, 1, <<>>)
        unit(featureName) ==
            LET found == [i \in DOMAIN instanceIds |->
                            LET feature == ValueOf(featureMap(instanceIds[i]), featureName)
                            IN  IF Truthy(feature)
                                THEN Found(Get(feature, "CurrentValue"))
                                ELSE NotFound]
                c == Collect(instanceIds, found, base)
            IN  [emit |-> \/ HasDifference(c, instanceIds, base, TRUE)
                          \/ Len(c.affectedInstances) # Len(instanceIds),
                 row |-> Row(<<featureName>>, c, instanceIds, base, TRUE)]
    IN  RowOf(SelectSeq([i \in DOMAIN allFeatureNames |-> unit(allFeatureNames[i])],
                        Emitted))

\* Object.values(instanceData)
ObjectValues(o) == [i \in DOMAIN o.kv |-> o.kv[i].v]

compareGenericData(instanceData, instanceIds, base) ==
    LET allPaths == collectPaths(ObjectValues(instanceData))
        unit(path) ==
            LET found == [i \in DOMAIN instanceIds |->
                            LET data == Get(instanceData, instanceIds[i])
                                value == getValueAtPath(data, path)
                            IN  IF Truthy(data) /\ value # Undefined
                                THEN Found(value) ELSE NotFound]
                c == Collect(instanceIds, found, base)
            IN  [emit |-> HasDifference(c, instanceIds, base, FALSE),
                 row |-> Row(path, c, instanceIds, base, FALSE)]
    IN  RowOf(SelectSeq([i \in DOMAIN allPaths |-> unit(allPaths[i])], Emitted))

\* The identifier of a record: String(item[identifierField]).
Identifier(item, customType) == String(Get(item, customType.identifierField))

\* if (identifier) { allItemIds.add(identifier); itemMap.set(identifier, item) }
RECURSIVE itemMapFrom(_, _, _, _)
itemMapFrom(items, customType, i, map) ==
    IF i > Len(items.kv) THEN map
    ELSE LET item == items.kv[i].v
             identifier == Identifier(item, customType)
         IN  itemMapFrom(items, customType, i + 1,
                         IF identifier # "" THEN Put(map, identifier, item) ELSE map)

RECURSIVE allItemIdsFrom(_, _, _, _, _)
allItemIdsFrom(instanceData, instanceIds, customType, i, ids) ==
    IF i > Len(instanceIds) THEN ids
    ELSE LET items == OrEmptyArray(Get(instanceData, instanceIds[i]))
             own == [j \in DOMAIN items.kv |-> Identifier(items.kv[j].v, customType)]
             RECURSIVE addAll(_, _)
             addAll(j, acc) ==
                 IF j > Len(own) THEN acc
                 ELSE addAll(j + 1, IF own[j] # "" THEN SetAdd(acc, own[j]) ELSE acc)
         IN  allItemIdsFrom(instanceData, instanceIds, customType, i + 1, addAll(1, ids))

\* itemValues: the comparison fields of the matched record, and nothing else.
RECURSIVE itemValuesFrom(_, _, _, _)
itemValuesFrom(item, comparisonFields, i, kv) ==
    IF i > Len(comparisonFields) THEN Obj(kv)
    ELSE itemValuesFrom(item, comparisonFields, i + 1,
                        Put(kv, comparisonFields[i],
                            getValueAtPath(item, Segs(comparisonFields[i]))))

itemValues(item, comparisonFields) == itemValuesFrom(item, comparisonFields, 1, <<>>)

compareCustomArrayData(instanceData, instanceIds, customType, base) ==
    IF customType.identifierField \in {null, ""} THEN <<>>
    ELSE
    LET itemMap(id) ==
            itemMapFrom(OrEmptyArray(Get(instanceData, id)), customType, 1, <<>>)
        allItemIds == allItemIdsFrom(instanceData, instanceIds, customType, 1, <<>>)
        unit(itemId) ==
            LET found == [i \in DOMAIN instanceIds |->
                            LET item == ValueOf(itemMap(instanceIds[i]), itemId)
                            IN  IF Truthy(item)
                                THEN Found(itemValues(item, customType.comparisonFields))
                                ELSE NotFound]
                c == Collect(instanceIds, found, base)
            IN  [emit |-> HasDifference(c, instanceIds, base, FALSE),
                 row |-> Row(<<itemId>>, c, instanceIds, base, FALSE)]
    IN  RowOf(SelectSeq([i \in DOMAIN allItemIds |-> unit(allItemIds[i])], Emitted))

\* Every path of the payloads compared, not the configured fields.
compareCustomObjectAllPaths(instanceData, instanceIds, customType, base) ==
    compareGenericData(instanceData, instanceIds, base)

compareCustomObjectData(instanceData, instanceIds, customType, base) ==
    LET fields == customType.comparisonFields
        unit(fieldPath) ==
            LET found == [i \in DOMAIN instanceIds |->
                            LET data == Get(instanceData, instanceIds[i])
                                value == getValueAtPath(data, Segs(fieldPath))
                            IN  IF Truthy(data) /\ value # Undefined
                                THEN Found(value) ELSE NotFound]
                c == Collect(instanceIds, found, base)
            IN  [emit |-> HasDifference(c, instanceIds, base, FALSE),
                 row |-> Row(Segs(fieldPath), c, instanceIds, base, FALSE)]
    IN  RowOf(SelectSeq([i \in DOMAIN fields |-> unit(fields[i])], Emitted))

-----------------------------------------------------------------------------
(* The store *)

\* The custom comparison types found in localStorage when the store is built:
\* an array type (it has an identifierField), an object type, and a type
\* saved with neither an identifierField nor a comparison field.
loadedCustomTypes ==
    << [id |-> "custom-arr", label |-> "Items",
        fetchEndpoint |-> "/items", saveEndpoint |-> "/saveItems",
        comparisonFields |-> <<"v">>, responseFields |-> <<>>,
        identifierField |-> "id"],
       [id |-> "custom-obj", label |-> "Fields",
        fetchEndpoint |-> "/fields", saveEndpoint |-> "/saveFields",
        comparisonFields |-> <<"y", "x">>, responseFields |-> <<>>,
        identifierField |-> null],
       [id |-> "custom-bad", label |-> "Bare",
        fetchEndpoint |-> "/bare", saveEndpoint |-> "/saveBare",
        comparisonFields |-> <<>>, responseFields |-> <<>>,
        identifierField |-> null] >>

\* loadBuiltInEndpointsFromLocalStorage(): the defaults.
builtInEndpoints ==
    [settings |-> [fetchEndpoint |-> "/api/settings", saveEndpoint |-> "/TurnOn"],
     codeTable |-> [fetchEndpoint |-> "/api/code-table", saveEndpoint |-> "/TurnOn"],
     featureToggle |-> [fetchEndpoint |-> "/GetAllFeatureFlags",
                        saveEndpoint |-> "/TurnOnToggles"]]

\* state.customTypes.find(t => t.id === id): the sequence of matches, the
\* first of which find returns.
FindCustomType(types, id) == SelectSeq(types, LAMBDA t : t.id = id)

ErrTooFew == "At least 2 instances are required for comparison"

\* The payload of a createComparisonSession action.
Payload(instanceIds, instanceData) ==
    [instanceIds |-> instanceIds, instanceData |-> instanceData]

\* JSON.parse(JSON.stringify(v)): what localStorage gives back for a value.
RECURSIVE JsonRoundTrip(_)
JsonRoundTrip(v) ==
    IF v.t \notin {"object", "array"} THEN v
    ELSE LET kept == SelectSeq(v.kv, LAMBDA p : v.t = "array" \/ p.v.t # "undefined")
         IN  Mk(v.t, "", [i \in DOMAIN kept |->
                            Prop(kept[i].k,
                                 IF kept[i].v.t = "undefined" THEN JsNull
                                 ELSE JsonRoundTrip(kept[i].v))])

\* saveComparisonSessionsToLocalStorage(sessions): the list as it is read back.
Persisted(list) ==
    [i \in DOMAIN list |->
        [list[i] EXCEPT !.results =
            [j \in DOMAIN list[i].results |->
                [list[i].results[j] EXCEPT !.values =
                    [k \in DOMAIN list[i].results[j].values |->
                        Prop(list[i].results[j].values[k].k,
                             JsonRoundTrip(list[i].results[j].values[k].v))]]]]]

\* The instances the user has configured, and their slice of the store with
\* nothing fetched yet.
Ids == {"a", "b", "c"}

\* No request posted yet.
NoPost == [source |-> null, target |-> null, selected |-> <<>>,
           endpoint |-> "", data |-> Undefined]

\* The instances found in localStorage when the store is built: all active.
loadedInstances == << [id |-> "a", isActive |-> TRUE],
                      [id |-> "b", isActive |-> TRUE],
                      [id |-> "c", isActive |-> TRUE] >>

InitInstances ==
    /\ instances = loadedInstances
    /\ storedInstances = loadedInstances
    /\ instancesData = Obj(<<>>)
    /\ status = [id \in Ids |-> "disconnected"]
    /\ loading = FALSE
    /\ fetchError = null
    /\ storedData = Obj(<<>>)
    /\ inFlight = {}
    /\ posted = NoPost

Init ==
    /\ sessions = <<>>
    /\ activeSessionId = null
    /\ selectedInstances = <<>>
    /\ baseInstanceId = null
    /\ comparisonType = "settings"
    /\ customTypes = loadedCustomTypes
    /\ currentFetchEndpoint = "/api/settings"
    /\ currentSaveEndpoint = "/api/settings"
    /\ error = null
    /\ stored = <<>>
    /\ now = 1
    /\ lastRun = Payload(<<>>, Undefined)
    /\ InitInstances
    /\ migrationSource = ""
    /\ migrationTarget = ""

\* The selection replaced, the base left as it was.
setSelectedInstancesKeepingBase(ids) ==
    /\ selectedInstances' = ids
    /\ UNCHANGED <<sessions, activeSessionId, baseInstanceId, comparisonType, customTypes,
                   currentFetchEndpoint, currentSaveEndpoint, error, stored, now, lastRun>>

setSelectedInstances(ids) ==
    /\ selectedInstances' = ids
    /\ baseInstanceId' = IF baseInstanceId # null /\ baseInstanceId \notin Range(ids)
                         THEN null ELSE baseInstanceId
    /\ UNCHANGED <<sessions, activeSessionId, comparisonType, customTypes,
                   currentFetchEndpoint, currentSaveEndpoint, error, stored, now, lastRun>>

setBaseInstanceId(id) ==
    /\ baseInstanceId' = id
    /\ UNCHANGED <<sessions, activeSessionId, selectedInstances, comparisonType,
                   customTypes, currentFetchEndpoint, currentSaveEndpoint, error,
                   stored, now, lastRun>>

setComparisonType(type) ==
    LET found == FindCustomType(customTypes, type)
    IN  /\ comparisonType' = type
        /\ IF found # <<>>
           THEN /\ currentFetchEndpoint' = found[1].fetchEndpoint
                /\ currentSaveEndpoint' = found[1].saveEndpoint
           ELSE IF type \in DOMAIN builtInEndpoints
                THEN /\ currentFetchEndpoint' = builtInEndpoints[type].fetchEndpoint
                     /\ currentSaveEndpoint' = builtInEndpoints[type].saveEndpoint
                ELSE UNCHANGED <<currentFetchEndpoint, currentSaveEndpoint>>
        /\ UNCHANGED <<sessions, activeSessionId, selectedInstances, baseInstanceId,
                       customTypes, error, stored, now, lastRun>>

\* instanceData[id] of the action's payload.
PayloadOf(instanceData, id) == Get(instanceData, id)

\* featureToggleData / customArrayData / genericData: one key per instance id
\* whose payload is truthy, in instanceIds order.
RECURSIVE GivenDataFrom(_, _, _, _)
GivenDataFrom(instanceIds, instanceData, i, kv) ==
    IF i > Len(instanceIds) THEN Obj(kv)
    ELSE GivenDataFrom(instanceIds, instanceData, i + 1,
                       IF Truthy(PayloadOf(instanceData, instanceIds[i]))
                       THEN Put(kv, instanceIds[i], PayloadOf(instanceData, instanceIds[i]))
                       ELSE kv)
GivenData(instanceIds, instanceData) == GivenDataFrom(instanceIds, instanceData, 1, <<>>)

\* The branch createComparisonSession takes.
ModeOf(type, types) ==
    LET found == FindCustomType(types, type)
    IN  IF type = "featureToggle" THEN "featureToggle"
        ELSE IF found # <<>> /\ found[1].identifierField # null
                             /\ found[1].identifierField # "" THEN "customArray"
        ELSE IF found # <<>> /\ Len(found[1].comparisonFields) > 0 THEN "customObject"
        ELSE "generic"

\* The results of one run: the comparison function of the branch taken.
Compare(type, types, base, instanceIds, instanceData) ==
    LET given == GivenData(instanceIds, instanceData)
        mode == ModeOf(type, types)
        customType == FindCustomType(types, type)[1]
    IN  CASE mode = "featureToggle" -> compareFeatureToggles(given, instanceIds, base)
          [] mode = "customArray" ->
                compareCustomArrayData(given, instanceIds, customType, base)
          [] mode = "customObject" ->
                compareCustomObjectData(given, instanceIds, customType, base)
          [] OTHER -> compareGenericData(given, instanceIds, base)

CountOfType(results, type) == Len(SelectSeq(results, LAMBDA r : r.type = type))

\* The summary with the added filter pasted into the deleted count.
SummaryDeletedAsAdded(results) ==
    [totalDifferences |-> Len(results),
     added |-> CountOfType(results, "added"),
     deleted |-> CountOfType(results, "added"),
     edited |-> CountOfType(results, "edited")]

\* "Calculate summary"
Summary(results) ==
    [totalDifferences |-> Len(results),
     added |-> CountOfType(results, "added"),
     deleted |-> CountOfType(results, "deleted"),
     edited |-> CountOfType(results, "edited")]

\* The guard one too low.
TooFewNone(instanceIds) == Len(instanceIds) < 1

\* instanceIds.length < 2
TooFew(instanceIds) == Len(instanceIds) < 2

\* The new session put in front of the list.
unshift(list, session) == <<session>> \o list

\* state.sessions.push(session)
push(list, session) == Append(list, session)

createComparisonSession(name, instanceIds, endpoint, instanceData) ==
    /\ lastRun' = Payload(instanceIds, instanceData)
    /\ IF TooFew(instanceIds)
       THEN /\ error' = ErrTooFew
            /\ UNCHANGED <<sessions, activeSessionId, stored>>
       ELSE LET results == Compare(comparisonType, customTypes, baseInstanceId,
                                   instanceIds, instanceData)
                session == [id |-> ToString(now), name |-> name,
                            instanceIds |-> instanceIds, endpoint |-> endpoint,
                            timestamp |-> now, results |-> results,
                            summary |-> Summary(results)]
            IN  /\ sessions' = push(sessions, session)
                /\ activeSessionId' = session.id
                /\ stored' = Persisted(sessions')
                /\ UNCHANGED error
    /\ UNCHANGED <<selectedInstances, baseInstanceId, comparisonType, customTypes,
                   currentFetchEndpoint, currentSaveEndpoint, now>>

setActiveSession(id) ==
    /\ activeSessionId' = id
    /\ UNCHANGED <<sessions, selectedInstances, baseInstanceId, comparisonType,
                   customTypes, currentFetchEndpoint, currentSaveEndpoint, error,
                   stored, now, lastRun>>

\* The session removed, the pointer left on it.
deleteSessionKeepingPointer(id) ==
    /\ sessions' = SelectSeq(sessions, LAMBDA s : s.id # id)
    /\ UNCHANGED <<activeSessionId, selectedInstances, baseInstanceId, comparisonType,
                   customTypes, currentFetchEndpoint, currentSaveEndpoint, error,
                   stored, now, lastRun>>

deleteSession(id) ==
    /\ sessions' = SelectSeq(sessions, LAMBDA s : s.id # id)
    /\ activeSessionId' = IF activeSessionId = id THEN null ELSE activeSessionId
    /\ UNCHANGED <<selectedInstances, baseInstanceId, comparisonType, customTypes,
                   currentFetchEndpoint, currentSaveEndpoint, error, stored, now, lastRun>>

clearError ==
    /\ error' = null
    /\ UNCHANGED <<sessions, activeSessionId, selectedInstances, baseInstanceId,
                   comparisonType, customTypes, currentFetchEndpoint,
                   currentSaveEndpoint, stored, now, lastRun>>

\* Time passes between two dispatches.
Tick ==
    /\ now' = now + 1
    /\ UNCHANGED <<sessions, activeSessionId, selectedInstances, baseInstanceId,
                   comparisonType, customTypes, currentFetchEndpoint,
                   currentSaveEndpoint, error, stored, lastRun>>

-----------------------------------------------------------------------------
(* The inputs the model draws *)

MaxSessions == 2
MaxClock == 2

\* The selections the runs are started with: two and three instances, in
\* and out of alphabetical order, and the selections too short to compare.
Selections ==
    { <<>>, <<"a">>, <<"a", "b">>, <<"b", "a">>,
      <<"a", "b", "c">>, <<"c", "a", "b">> }

O1(k1, v1) == Obj(<<Prop(k1, v1)>>)
O2(k1, v1, k2, v2) == Obj(<<Prop(k1, v1), Prop(k2, v2)>>)
O3(k1, v1, k2, v2, k3, v3) == Obj(<<Prop(k1, v1), Prop(k2, v2), Prop(k3, v3)>>)
A1(v1) == Arr(<<Prop("0", v1)>>)
A2(v1, v2) == Arr(<<Prop("0", v1), Prop("1", v2)>>)

\* Settings / code-table / custom-object payloads.
ObjectPayloads ==
    { Obj(<<>>),
      O1("x", Num("1")),
      O2("x", Num("1"), "y", Num("2")),
      O2("x", Num("1"), "y", Num("3")),
      O2("y", Num("2"), "x", Num("1")),
      O1("x", O2("p", Num("1"), "q", Num("2"))),
      O1("x", O2("q", Num("2"), "p", Num("1"))),
      O1("x", Str("MISSING")) }

\* Payloads of the custom array type: records identified by "id", compared
\* on "v".
ItemPayloads ==
    { Arr(<<>>),
      A1(O2("id", Str("f1"), "v", Bool("true"))),
      A1(O2("id", Str("f1"), "v", Bool("false"))),
      A2(O2("id", Str("f1"), "v", Bool("false")),
         O2("id", Str("f2"), "v", Bool("true"))),
      A1(O3("id", Str("f1"), "v", Bool("true"), "w", Num("1"))),
      A1(O2("id", Str("f1"), "v", O2("p", Num("1"), "q", Num("2")))),
      A1(O2("id", Str("f1"), "v", O2("q", Num("2"), "p", Num("1")))) }

\* Feature-toggle payloads.
Toggle(name, value) == O2("FeatureName", Str(name), "CurrentValue", Bool(value))
TogglePayloads ==
    { Arr(<<>>),
      A1(Toggle("f1", "true")),
      A1(Toggle("f1", "false")),
      A2(Toggle("f1", "false"), Toggle("f2", "true")) }

\* Payloads fetched for the type that names no field.
BarePayloads == { O1("x", Num("1")), O2("x", Num("1"), "y", Num("3")) }

\* The payloads an instance can return for a comparison type.
PayloadsFor(type) ==
    CASE type = "featureToggle" -> TogglePayloads
      [] type = "custom-arr" -> ItemPayloads
      [] type = "custom-bad" -> BarePayloads
      [] OTHER -> ObjectPayloads

\* selectedInstanceData: the payloads of the selected instances that have
\* one, keyed by instance id.
DataOf(ids, payloads) ==
    LET has == SelectSeq([i \in DOMAIN ids |-> i], LAMBDA i : payloads[i] # Undefined)
    IN  Obj([j \in DOMAIN has |-> Prop(ids[has[j]], payloads[has[j]])])

DataFor(ids, type) ==
    {DataOf(ids, payloads) :
        payloads \in [DOMAIN ids -> PayloadsFor(type) \cup {Undefined}]}

RunTypes == {"settings", "featureToggle", "custom-arr", "custom-obj", "custom-bad"}

\* handleStartComparison: the Compare page runs the selected instances
\* against what was fetched for them.
handleStartComparison(selectedInstanceData) ==
    /\ Len(selectedInstances) >= 2
    /\ createComparisonSession("run", selectedInstances, currentFetchEndpoint,
                               selectedInstanceData)

-----------------------------------------------------------------------------
(* The instances slice: what was fetched from each instance, and the two   *)
(* thunks that talk to an instance.  A thunk in flight is named by the     *)
(* instance it fetches from, the post by "post".                           *)

\* The InstanceData record of a fulfilled fetch (its timestamp left out).
InstanceDataOf(instanceId, data) == O2("instanceId", Str(instanceId), "data", data)

ErrFetch == "Failed to fetch data"
ErrPost == "Failed to post data"

\* fetchInstanceData.fulfilled
fetchFulfilled(instanceId, data) ==
    /\ instanceId \in inFlight
    /\ loading' = FALSE
    /\ instancesData' = Obj(Put(instancesData.kv, instanceId,
                                InstanceDataOf(instanceId, data)))
    /\ storedData' = JsonRoundTrip(instancesData')
    /\ status' = [status EXCEPT ![instanceId] = "connected"]
    /\ inFlight' = inFlight \ {instanceId}
    /\ UNCHANGED <<instances, storedInstances, fetchError, posted>>

\* fetchInstanceData.rejected
fetchRejected(instanceId) ==
    /\ instanceId \in inFlight
    /\ loading' = FALSE
    /\ fetchError' = ErrFetch
    /\ status' = [status EXCEPT ![instanceId] = "error"]
    /\ inFlight' = inFlight \ {instanceId}
    /\ UNCHANGED <<instances, storedInstances, instancesData, storedData, posted>>

\* postInstanceData.fulfilled
postFulfilled ==
    /\ "post" \in inFlight
    /\ loading' = FALSE
    /\ inFlight' = inFlight \ {"post"}
    /\ UNCHANGED <<instances, storedInstances, instancesData, status, fetchError,
                   storedData, posted>>

\* postInstanceData.rejected
postRejected ==
    /\ "post" \in inFlight
    /\ loading' = FALSE
    /\ fetchError' = ErrPost
    /\ inFlight' = inFlight \ {"post"}
    /\ UNCHANGED <<instances, storedInstances, instancesData, status, storedData,
                   posted>>

\* addInstance: the id is the clock reading; the new instance is
\* disconnected.
addInstance(isActive) ==
    LET id == ToString(now)
    IN  /\ instances' = Append(instances, [id |-> id, isActive |-> isActive])
        /\ status' = [i \in DOMAIN status \cup {id} |->
                          IF i = id THEN "disconnected" ELSE status[i]]
        /\ storedInstances' = instances'
        /\ UNCHANGED <<instancesData, loading, fetchError, storedData, inFlight, posted>>

\* removeInstance: the instance and what was fetched from it.
removeInstance(id) ==
    /\ instances' = SelectSeq(instances, LAMBDA i : i.id # id)
    /\ status' = [i \in DOMAIN status \ {id} |-> status[i]]
    /\ instancesData' = Obj(SelectSeq(instancesData.kv, LAMBDA p : p.k # id))
    /\ storedInstances' = instances'
    /\ storedData' = JsonRoundTrip(instancesData')
    /\ UNCHANGED <<loading, fetchError, inFlight, posted>>

\* toggleInstanceActive: the first instance with the id, if there is one.
toggleInstanceActive(id) ==
    LET found == {i \in DOMAIN instances : instances[i].id = id}
        first == CHOOSE i \in found : \A j \in found : i <= j
    IN  /\ IF found = {} THEN UNCHANGED <<instances, storedInstances>>
           ELSE /\ instances' = [instances EXCEPT ![first].isActive = ~@]
                /\ storedInstances' = instances'
        /\ UNCHANGED <<instancesData, status, loading, fetchError, storedData,
                       inFlight, posted>>

-----------------------------------------------------------------------------
(* The Compare page and the Summary page *)

\* instances.filter(i => i.isActive): the instances the Compare page lists.
activeInstances == SelectSeq(instances, LAMBDA i : i.isActive)

\* handleInstanceSelection: the checkbox of a listed instance ticked or
\* cleared.
handleInstanceSelection(instanceId, checked) ==
    setSelectedInstances(IF checked THEN Append(selectedInstances, instanceId)
                         ELSE SelectSeq(selectedInstances, LAMBDA id : id # instanceId))

\* handleFetchData: one fetch per selected instance, each reduced as pending
\* at once.
handleFetchData ==
    /\ Len(selectedInstances) >= 2
    /\ Range(selectedInstances) \cap inFlight = {}
    /\ loading' = TRUE
    /\ fetchError' = null
    /\ inFlight' = inFlight \cup Range(selectedInstances)
    /\ UNCHANGED <<instances, storedInstances, instancesData, status, storedData,
                   posted>>

\* selectedInstanceData of handleStartComparison: the data of the selected
\* instances the store holds a record for.
selectedInstanceData(ids, cache) ==
    DataOf(ids, [i \in DOMAIN ids |->
                    IF Truthy(Get(cache, ids[i]))
                    THEN Get(Get(cache, ids[i]), "data") ELSE Undefined])

\* sessions.find(s => s.id === activeSessionId)
activeSession == SelectSeq(sessions, LAMBDA s : s.id = activeSessionId)

\* filterObjectFields(obj, responseFields), for field names without a dot.
RECURSIVE filterObjectFieldsFrom(_, _, _, _)
filterObjectFieldsFrom(obj, responseFields, i, kv) ==
    IF i > Len(responseFields) THEN Obj(kv)
    ELSE filterObjectFieldsFrom(obj, responseFields, i + 1,
            IF responseFields[i] \in Range(Keys(obj))
            THEN Put(kv, responseFields[i], Get(obj, responseFields[i]))
            ELSE kv)
filterObjectFields(obj, responseFields) ==
    filterObjectFieldsFrom(obj, responseFields, 1, <<>>)

\* "Convert path like config.theme to nested object structure": obj with
\* value set at pathParts, the objects on the way created when absent.
RECURSIVE setAtPath(_, _, _)
setAtPath(obj, pathParts, value) ==
    IF Len(pathParts) = 1 THEN Obj(Put(obj.kv, pathParts[1], value))
    ELSE LET part == Head(pathParts)
             inner == IF part \in Range(Keys(obj)) THEN Get(obj, part) ELSE Obj(<<>>)
         IN  Obj(Put(obj.kv, part, setAtPath(inner, Tail(pathParts), value)))

\* migrationData: what the rows of the session record for the source, for
\* the selected paths.
RECURSIVE migrationDataFrom(_, _, _, _, _)
migrationDataFrom(results, selected, source, i, data) ==
    IF i > Len(selected) THEN data
    ELSE LET found == SelectSeq(results, LAMBDA r : r.path = selected[i])
         IN  migrationDataFrom(results, selected, source, i + 1,
                IF /\ found # <<>>
                   /\ ValueOf(found[1].values, source) # Undefined
                   /\ ValueOf(found[1].values, source) # MISSING
                THEN setAtPath(data, selected[i], ValueOf(found[1].values, source))
                ELSE data)

\* selectedItems: the records of the source's present data that the selected
\* paths name by their first part, cut down to the response fields.
selectedItems(sourceArray, selected, identifierField, responseFields) ==
    LET RECURSIVE identifiersFrom(_, _)
        identifiersFrom(i, acc) ==
            IF i > Len(selected) THEN acc
            ELSE identifiersFrom(i + 1, SetAdd(acc, selected[i][1]))
        selectedIdentifiers == identifiersFrom(1, <<>>)
        sourceItem(identifier) ==
            SelectSeq(ObjectValues(sourceArray),
                      LAMBDA item : Get(item, identifierField) = Str(identifier))
        filteredItem(identifier) ==
            filterObjectFields(sourceItem(identifier)[1], responseFields)
        kept == SelectSeq(selectedIdentifiers,
                          LAMBDA identifier : /\ sourceItem(identifier) # <<>>
                                              /\ filteredItem(identifier).kv # <<>>)
    IN  Arr([i \in DOMAIN kept |-> Prop(ToString(i - 1), filteredItem(kept[i]))])

\* The items of the Source Instance Select and of the Target Instance
\* Select: the instances of the active session, the target's without the
\* source picked.
SourceOptions ==
    IF activeSession = <<>> THEN {} ELSE Range(activeSession[1].instanceIds)
TargetOptions == SourceOptions \ {migrationSource}

\* setMigrationSource / setMigrationTarget: the value picked in the Select.
setMigrationSource(id) ==
    /\ migrationSource' = id
    /\ UNCHANGED migrationTarget

setMigrationTarget(id) ==
    /\ migrationTarget' = id
    /\ UNCHANGED migrationSource

\* handleMigration of the Summary page, for the source, the target and the
\* paths ticked there; it ends with postInstanceData reduced as pending.
handleMigration(selectedForMigration) ==
    LET customType == FindCustomType(customTypes, comparisonType)
        sourceInstanceData == Get(instancesData, migrationSource)
        sourceData == Get(sourceInstanceData, "data")
        isArrayBasedData == Truthy(sourceInstanceData) /\ IsArray(sourceData)
        hasFeatureToggleStructure ==
            /\ isArrayBasedData
            /\ Len(sourceData.kv) > 0
            /\ TypeofObject(sourceData.kv[1].v)
            /\ "FeatureName" \in Range(Keys(sourceData.kv[1].v))
        hasResponseFields ==
            customType # <<>> /\ Len(customType[1].responseFields) > 0
        shouldUseResponseFieldFiltering ==
            \/ hasResponseFields
            \/ comparisonType = "featureToggle"
            \/ hasFeatureToggleStructure
        responseFields == IF hasResponseFields THEN customType[1].responseFields
                          ELSE <<"FeatureName", "CurrentValue">>
        identifierField == IF hasResponseFields THEN customType[1].identifierField
                           ELSE "FeatureName"
        migrationData == migrationDataFrom(activeSession[1].results,
                                           selectedForMigration, migrationSource,
                                           1, Obj(<<>>))
        finalData ==
            IF shouldUseResponseFieldFiltering
            THEN IF identifierField \notin {null, ""} /\ IsArray(sourceData)
                 THEN selectedItems(sourceData, selectedForMigration,
                                    identifierField, responseFields)
                 ELSE filterObjectFields(migrationData, responseFields)
            ELSE migrationData
    IN  /\ activeSession # <<>>
        /\ migrationTarget # ""
        /\ migrationSource # ""
        /\ selectedForMigration # <<>>
        /\ shouldUseResponseFieldFiltering =>
              Truthy(sourceInstanceData) /\ Truthy(sourceData)
        /\ finalData.kv # <<>>
        /\ posted' = [source |-> migrationSource, target |-> migrationTarget,
                      selected |-> selectedForMigration,
                      endpoint |-> currentSaveEndpoint,
                      data |-> O1("Data", finalData)]
        /\ loading' = TRUE
        /\ fetchError' = null
        /\ inFlight' = inFlight \cup {"post"}
        /\ UNCHANGED <<instances, storedInstances, instancesData, status, storedData>>


-----------------------------------------------------------------------------
(* Spec: the session list.  Sessions are created (by any dispatch of the   *)
(* reducer, also with too few ids), selected and deleted while time passes. *)

SessionData ==
    { DataOf(<<"a", "b">>, <<O2("x", Num("1"), "y", Num("2")),
                             O2("x", Num("1"), "y", Num("2"))>>),
      DataOf(<<"a", "b">>, <<O2("x", Num("1"), "y", Num("2")),
                             O2("x", Num("1"), "y", Num("3"))>>) }

SessionIds == {<<>>, <<"a">>, <<"a", "b">>}

Next ==
    \/ /\ Len(sessions) < MaxSessions
       /\ \E ids \in SessionIds, data \in SessionData :
             createComparisonSession("run", ids, currentFetchEndpoint, data)
       /\ UNCHANGED <<instancesVars, pageVars>>
    \/ /\ \E i \in DOMAIN sessions : setActiveSession(sessions[i].id)
       /\ UNCHANGED <<instancesVars, pageVars>>
    \/ /\ \E t \in 1..MaxClock : deleteSession(ToString(t))
       /\ UNCHANGED <<instancesVars, pageVars>>
    \/ clearError /\ UNCHANGED <<instancesVars, pageVars>>
    \/ now < MaxClock /\ Tick /\ UNCHANGED <<instancesVars, pageVars>>

Spec == Init /\ [][Next]_vars

(* SpecRun: one comparison run.  The page is configured (type, selection,  *)
(* base) and the first comparison is started.                              *)

NextRun ==
    \/ /\ sessions = <<>> /\ \E ids \in Selections : setSelectedInstances(ids)
       /\ UNCHANGED <<instancesVars, pageVars>>
    \/ /\ sessions = <<>> /\ \E id \in Range(selectedInstances) \cup {null} :
                                setBaseInstanceId(id)
       /\ UNCHANGED <<instancesVars, pageVars>>
    \/ /\ sessions = <<>> /\ \E type \in RunTypes : setComparisonType(type)
       /\ UNCHANGED <<instancesVars, pageVars>>
    \/ /\ sessions = <<>> /\ \E data \in DataFor(selectedInstances, comparisonType) :
                                handleStartComparison(data)
       /\ UNCHANGED <<instancesVars, pageVars>>

SpecRun == Init /\ [][NextRun]_vars

(* SpecFetch: two instances are selected and fetched, compared once from   *)
(* what the store holds, fetched again, and values are migrated once from  *)
(* the recorded session.  The comparison type is chosen before the first   *)
(* fetch; the comparison and the migration are started when no request is  *)
(* in flight.                                                              *)

FetchTypes == {"settings", "featureToggle"}

\* What an instance answers a fetch with.
FetchedPayloads(type) ==
    IF type = "featureToggle"
    THEN { A1(Toggle("f1", "true")),
           A2(Toggle("f1", "false"), Toggle("f2", "true")) }
    ELSE { O1("x", Num("1")), O2("x", Num("2"), "y", Num("3")) }

\* The paths ticked for migration: rows of the session, in the order shown.
MigrationSelections ==
    IF activeSession = <<>> THEN {}
    ELSE LET results == activeSession[1].results
         IN  {[i \in DOMAIN picked |-> results[picked[i]].path] :
                picked \in {q \in UNION {[1..n -> DOMAIN results] : n \in 1..Len(results)} :
                               \A i, j \in DOMAIN q : i < j => q[i] < q[j]}}

NextFetch ==
    \/ /\ sessions = <<>> /\ setSelectedInstances(<<"a", "b">>)
       /\ UNCHANGED <<instancesVars, pageVars>>
    \/ /\ instancesData = Obj(<<>>) /\ inFlight = {} /\ sessions = <<>>
       /\ \E type \in FetchTypes : setComparisonType(type)
       /\ UNCHANGED <<instancesVars, pageVars>>
    \/ handleFetchData /\ UNCHANGED <<comparisonVars, pageVars>>
    \/ /\ \E instanceId \in Ids, data \in FetchedPayloads(comparisonType) :
             fetchFulfilled(instanceId, data)
       /\ UNCHANGED <<comparisonVars, pageVars>>
    \/ /\ \E instanceId \in Ids : fetchRejected(instanceId)
       /\ UNCHANGED <<comparisonVars, pageVars>>
    \/ /\ sessions = <<>> /\ inFlight = {}
       /\ handleStartComparison(selectedInstanceData(selectedInstances, instancesData))
       /\ UNCHANGED <<instancesVars, pageVars>>
    \/ /\ activeSession # <<>> /\ inFlight = {} /\ posted = NoPost
       /\ \E id \in SourceOptions : setMigrationSource(id)
       /\ UNCHANGED <<comparisonVars, instancesVars>>
    \/ /\ activeSession # <<>> /\ inFlight = {} /\ posted = NoPost
       /\ \E id \in TargetOptions : setMigrationTarget(id)
       /\ UNCHANGED <<comparisonVars, instancesVars>>
    \/ /\ inFlight = {} /\ posted = NoPost
       /\ \E selected \in MigrationSelections : handleMigration(selected)
       /\ UNCHANGED <<comparisonVars, pageVars>>
    \/ postFulfilled /\ UNCHANGED <<comparisonVars, pageVars>>
    \/ postRejected /\ UNCHANGED <<comparisonVars, pageVars>>

SpecFetch == Init /\ [][NextFetch]_vars

(* SpecShapes: one comparison run of two instances over payloads of every  *)
(* shape an instance can answer with: records that name no identifier or   *)
(* repeat one, arrays and null inside objects, keys outside the configured *)
(* fields.                                                                 *)

ShapeSelections == { <<"a", "b">>, <<"b", "a">> }

Item(id, value) == O2("id", id, "v", Bool(value))

\* Payloads of the custom array type.
ShapeItemPayloads ==
    { Arr(<<>>),
      A1(Item(Str("f1"), "true")),
      A2(Item(Str("f1"), "true"), Item(Str("f1"), "false")),
      A2(Item(Str("f1"), "true"), O1("v", Bool("true"))),
      A2(Item(Str("f1"), "true"), Item(JsNull, "true")),
      A2(Item(Str("f1"), "true"), Item(Str(""), "true")) }

\* Feature-toggle payloads.
ShapeTogglePayloads ==
    { Arr(<<>>),
      A1(Toggle("f1", "true")),
      A2(Toggle("f1", "true"), Toggle("f1", "false")),
      A2(Toggle("f1", "true"), O1("CurrentValue", Bool("true"))),
      A2(Toggle("f1", "true"), O2("FeatureName", JsNull, "CurrentValue", Bool("true"))),
      A2(Toggle("f1", "true"), Toggle("", "true")) }

\* Settings / custom-object payloads.
ShapeObjectPayloads ==
    { Obj(<<>>),
      O2("x", A1(O1("p", Num("1"))), "y", Num("2")),
      O2("x", A1(O1("p", Num("2"))), "y", Num("2")),
      O2("x", O1("p", Num("1")), "z", JsNull),
      O3("x", O1("p", O1("q", Num("1"))), "y", Num("3"), "z", Num("1")),
      O3("z", Num("2"), "y", Num("2"), "x", Num("1")) }

ShapePayloadsFor(type) ==
    CASE type = "featureToggle" -> ShapeTogglePayloads
      [] type = "custom-arr" -> ShapeItemPayloads
      [] OTHER -> ShapeObjectPayloads

ShapeDataFor(ids, type) ==
    {DataOf(ids, payloads) :
        payloads \in [DOMAIN ids -> ShapePayloadsFor(type) \cup {Undefined}]}

NextShapes ==
    \/ /\ sessions = <<>> /\ \E ids \in ShapeSelections : setSelectedInstances(ids)
       /\ UNCHANGED <<instancesVars, pageVars>>
    \/ /\ sessions = <<>> /\ \E id \in Range(selectedInstances) \cup {null} :
                                setBaseInstanceId(id)
       /\ UNCHANGED <<instancesVars, pageVars>>
    \/ /\ sessions = <<>> /\ \E type \in RunTypes : setComparisonType(type)
       /\ UNCHANGED <<instancesVars, pageVars>>
    \/ /\ sessions = <<>>
       /\ \E data \in ShapeDataFor(selectedInstances, comparisonType) :
             handleStartComparison(data)
       /\ UNCHANGED <<instancesVars, pageVars>>

SpecShapes == Init /\ [][NextShapes]_vars

(* SpecSelect: instances are added, removed and switched on and off on the *)
(* Configuration page while the Compare page's selection is ticked and     *)
(* cleared, and the first comparison is started.                           *)

MaxInstances == 3

NextSelect ==
    \/ /\ Len(instances) < MaxInstances
       /\ \A i \in DOMAIN instances : instances[i].id # ToString(now)
       /\ \E isActive \in BOOLEAN : addInstance(isActive)
       /\ UNCHANGED <<comparisonVars, pageVars>>
    \/ /\ \E i \in DOMAIN instances : removeInstance(instances[i].id)
       /\ UNCHANGED <<comparisonVars, pageVars>>
    \/ /\ \E i \in DOMAIN instances : toggleInstanceActive(instances[i].id)
       /\ UNCHANGED <<comparisonVars, pageVars>>
    \/ /\ sessions = <<>>
       /\ \E i \in DOMAIN activeInstances :
             handleInstanceSelection(activeInstances[i].id,
                                     activeInstances[i].id \notin Range(selectedInstances))
       /\ UNCHANGED <<instancesVars, pageVars>>
    \/ /\ sessions = <<>>
       /\ handleStartComparison(selectedInstanceData(selectedInstances, instancesData))
       /\ UNCHANGED <<instancesVars, pageVars>>
    \/ now < MaxClock /\ Tick /\ UNCHANGED <<instancesVars, pageVars>>

SpecSelect == Init /\ [][NextSelect]_vars

-----------------------------------------------------------------------------
(* Vocabulary of the properties *)

\* The run the first session records: its ids, its payloads, its rows.
Ran == sessions # <<>>
RunIds == lastRun.instanceIds
RunData == lastRun.instanceData
RunResults == sessions[1].results
RunMode == ModeOf(comparisonType, customTypes)

\* Every order of a list of ids.
Orders(ids) ==
    {o \in [DOMAIN ids -> Range(ids)] : \A i, j \in DOMAIN ids : i # j => o[i] # o[j]}

\* The units and types a result list reports.
Reported(results) == {<<results[i].path, results[i].type>> : i \in DOMAIN results}

\* v and w are the same JSON value: the same type and text, the same keys
\* with the same values whatever the key order, the same elements in order.
RECURSIVE JsonEqual(_, _)
JsonEqual(v, w) ==
    /\ v.t = w.t
    /\ v.s = w.s
    /\ Len(v.kv) = Len(w.kv)
    /\ IF v.t = "array"
       THEN \A i \in DOMAIN v.kv : JsonEqual(v.kv[i].v, w.kv[i].v)
       ELSE /\ Range(Keys(v)) = Range(Keys(w))
            /\ \A k \in Range(Keys(v)) : JsonEqual(Get(v, k), Get(w, k))

\* The units a run can report: the paths of the object payloads, the
\* configured fields of the custom object type, the item names.
RunUnits ==
    CASE RunMode = "generic" -> {<<"x">>, <<"y">>, <<"x", "p">>, <<"x", "q">>}
      [] RunMode = "customObject" ->
            {Segs(f) : f \in Range(FindCustomType(customTypes, comparisonType)[1]
                                       .comparisonFields)}
      [] OTHER -> {<<"f1">>, <<"f2">>}

\* The records of instance id that carry the item name u.
RecordsOf(id, u) ==
    LET items == OrEmptyArray(Get(RunData, id))
        field == IF RunMode = "featureToggle" THEN "FeatureName"
                 ELSE FindCustomType(customTypes, comparisonType)[1].identifierField
    IN  {n \in DOMAIN items.kv : String(Get(items.kv[n].v, field)) = u[1]}

\* Instance id really holds unit u in its payload.
Holds(id, u) ==
    IF RunMode \in {"generic", "customObject"}
    THEN /\ Get(RunData, id) # Undefined
         /\ getValueAtPath(Get(RunData, id), u) # Undefined
    ELSE RecordsOf(id, u) # {}

\* What instance id holds for unit u: the value at the path, the toggle's
\* value, or the comparison fields of the matched (last) record.
Held(id, u) ==
    IF RunMode \in {"generic", "customObject"}
    THEN getValueAtPath(Get(RunData, id), u)
    ELSE LET items == OrEmptyArray(Get(RunData, id))
             n == CHOOSE m \in RecordsOf(id, u) : \A k \in RecordsOf(id, u) : k <= m
             fields == FindCustomType(customTypes, comparisonType)[1].comparisonFields
         IN  IF RunMode = "featureToggle" THEN Get(items.kv[n].v, "CurrentValue")
             ELSE Obj([i \in DOMAIN fields |->
                         Prop(fields[i], getValueAtPath(items.kv[n].v, Segs(fields[i])))])

HeldByAll(u) == \A n \in DOMAIN RunIds : Holds(RunIds[n], u)
AllHeldEqual(u) ==
    \A m, n \in DOMAIN RunIds : JsonEqual(Held(RunIds[m], u), Held(RunIds[n], u))

\* The rows of the run that are about unit u.
RowsFor(u) == {j \in DOMAIN RunResults : RunResults[j].path = u}

\* C1: createComparisonSession with fewer than 2 instance ids only sets the
\* validation error: the session list, the active-session pointer and the
\* persisted list stay as they were.
C1_RejectedRunHasNoEffect ==
    [][(\E ids \in SessionIds, data \in SessionData :
            /\ Len(ids) < 2
            /\ createComparisonSession("run", ids, currentFetchEndpoint, data))
        => /\ error' = ErrTooFew
           /\ sessions' = sessions
           /\ activeSessionId' = activeSessionId
           /\ stored' = stored]_vars

\* A run with one id was rejected while a session was in the list.
C1_Witness ==
    /\ Len(lastRun.instanceIds) = 1
    /\ error = ErrTooFew
    /\ Len(sessions) = 1
    /\ activeSessionId = sessions[1].id

\* C2: in every session the summary counts the rows by type, the three
\* counts add up to totalDifferences, and every row is added, deleted or
\* edited.
C2_SummaryCountsRows ==
    \A i \in DOMAIN sessions :
        LET r == sessions[i].results
            sm == sessions[i].summary
            n(type) == Cardinality({j \in DOMAIN r : r[j].type = type})
        IN  /\ sm.totalDifferences = sm.added + sm.deleted + sm.edited
            /\ sm.totalDifferences = Len(r)
            /\ sm.added = n("added")
            /\ sm.deleted = n("deleted")
            /\ sm.edited = n("edited")
            /\ \A j \in DOMAIN r : r[j].type \in {"added", "deleted", "edited"}

\* A session with a base whose rows are of more than one type.
C2_Witness ==
    /\ Ran
    /\ baseInstanceId # null
    /\ sessions[1].summary.deleted > 0
    /\ sessions[1].summary.edited > 0

\* C3: the values of every row have one entry for each listed instance id,
\* and no other entry.
C3_ValuesComplete ==
    \A i \in DOMAIN sessions :
        \A j \in DOMAIN sessions[i].results :
            LET values == sessions[i].results[j].values
                ids == sessions[i].instanceIds
            IN  /\ Len(values) = Len(ids)
                /\ \A n \in DOMAIN ids :
                      Cardinality({k \in DOMAIN values : values[k].k = ids[n]}) = 1

\* A row of the custom array comparison of three instances, one of which
\* has no payload.
C3_Witness ==
    /\ Ran
    /\ RunMode = "customArray"
    /\ Len(RunIds) = 3
    /\ \E n \in DOMAIN RunIds : Get(RunData, RunIds[n]) = Undefined
    /\ RunResults # <<>>

\* C4: in every row affectedInstances lists, in instanceIds order, the ids
\* whose entry in values is not MISSING.
C4_AffectedAreTheNonMissing ==
    \A i \in DOMAIN sessions :
        \A j \in DOMAIN sessions[i].results :
            LET r == sessions[i].results[j]
            IN  r.affectedInstances =
                    SelectSeq(sessions[i].instanceIds,
                              LAMBDA id : ValueOf(r.values, id) # MISSING)

\* C5: with no base, the units reported and their types are the same for
\* every order of the instance ids, and no row is reported for a unit that
\* every instance holds with the same serialization.
C5_OrderDoesNotMatter ==
    (Ran /\ baseInstanceId = null) =>
        /\ \A o \in Orders(RunIds) :
              Reported(Compare(comparisonType, customTypes, null, o, RunData))
                  = Reported(RunResults)
        /\ \A j \in DOMAIN RunResults :
              ~ /\ RunResults[j].affectedInstances = RunIds
                /\ \A k \in DOMAIN RunResults[j].values :
                      Stringify(RunResults[j].values[k].v)
                          = Stringify(RunResults[j].values[1].v)

\* Three instances out of alphabetical order, no base: x is the same
\* everywhere and is not reported, y is not and is.
C5_Witness ==
    /\ Ran
    /\ baseInstanceId = null
    /\ RunMode = "generic"
    /\ RunIds = <<"c", "a", "b">>
    /\ \A n \in DOMAIN RunIds : Get(Get(RunData, RunIds[n]), "x") = Num("1")
    /\ Len(RunResults) = 1
    /\ RunResults[1].path = <<"y">>

\* C6: equality ignores the key order of objects: a unit that every
\* instance holds with the same JSON value is not reported (generic, custom
\* object and custom array comparisons).
C6_KeyOrderIsIgnored ==
    (Ran /\ RunMode # "featureToggle") =>
        \A u \in RunUnits : (HeldByAll(u) /\ AllHeldEqual(u)) => RowsFor(u) = {}

\* C7: with a base that holds a unit which some other instance lacks, the
\* unit is reported, as deleted.
C7_MissingFromBaseIsDeleted ==
    (Ran /\ baseInstanceId # null) =>
        \A u \in RunUnits :
            (/\ Holds(baseInstanceId, u)
             /\ \E n \in DOMAIN RunIds : ~Holds(RunIds[n], u))
            => /\ RowsFor(u) # {}
               /\ \A j \in RowsFor(u) : RunResults[j].type = "deleted"

\* C8: in the generic comparison a path every instance holds is reported
\* exactly when two instances hold different values for it, and then as
\* edited, with every instance's own value and every instance affected.
C8_GenericEditedRow ==
    (Ran /\ RunMode = "generic") =>
        \A u \in RunUnits :
            HeldByAll(u) =>
                /\ RowsFor(u) # {} <=> ~AllHeldEqual(u)
                /\ \A j \in RowsFor(u) :
                      /\ RunResults[j].type = "edited"
                      /\ RunResults[j].affectedInstances = RunIds
                      /\ \A n \in DOMAIN RunIds :
                            ValueOf(RunResults[j].values, RunIds[n]) = Held(RunIds[n], u)

\* C9: with no base, a unit that some instances hold and others lack is
\* added when fewer instances lack it than hold it, and deleted otherwise.
C9_AddedWhenFewerMissing ==
    (Ran /\ baseInstanceId = null) =>
        \A u \in RunUnits :
            LET holding == {n \in DOMAIN RunIds : Holds(RunIds[n], u)}
                lacking == DOMAIN RunIds \ holding
            IN  (holding # {} /\ lacking # {}) =>
                    \A j \in RowsFor(u) :
                        RunResults[j].type =
                            IF Cardinality(lacking) < Cardinality(holding)
                            THEN "added" ELSE "deleted"

\* C10: in the custom array comparison an item every instance holds is
\* reported exactly when two matched records differ in a comparison field,
\* and then as edited, the values being the comparison fields alone.
C10_ComparisonFieldsOnly ==
    (Ran /\ RunMode = "customArray") =>
        \A u \in RunUnits :
            HeldByAll(u) =>
                /\ RowsFor(u) # {} <=> ~AllHeldEqual(u)
                /\ \A j \in RowsFor(u) :
                      /\ RunResults[j].type = "edited"
                      /\ \A n \in DOMAIN RunIds :
                            ValueOf(RunResults[j].values, RunIds[n]) = Held(RunIds[n], u)

\* The payloads of a run with an empty payload (no item, no key) given to the
\* instances that have none.
EmptyPayload == IF RunMode \in {"featureToggle", "customArray"} THEN Arr(<<>>) ELSE Obj(<<>>)
WithEmptyPayloads(ids, data) ==
    Obj([n \in DOMAIN ids |->
            Prop(ids[n], IF Get(data, ids[n]) = Undefined THEN EmptyPayload
                         ELSE Get(data, ids[n]))])

\* C11: a run dispatched with a listed instance that has no payload creates
\* its session like any other and reports no error; in every row that
\* instance's value is MISSING and the instance is not among the affected
\* ones, and the rows are those of the run in which the instance returned an
\* empty payload.
C11_NoPayloadIsAllMissing ==
    Len(RunIds) >= 2 =>
        /\ Len(sessions) = 1
        /\ error = null
        /\ \A n \in DOMAIN RunIds :
              Get(RunData, RunIds[n]) = Undefined =>
                  \A j \in DOMAIN RunResults :
                      /\ ValueOf(RunResults[j].values, RunIds[n]) = MISSING
                      /\ RunIds[n] \notin Range(RunResults[j].affectedInstances)
        /\ RunResults = Compare(comparisonType, customTypes, baseInstanceId, RunIds,
                                WithEmptyPayloads(RunIds, RunData))

C11_Witness ==
    /\ Ran
    /\ RunMode = "generic"
    /\ Get(RunData, "b") = Undefined
    /\ RunIds = <<"a", "b">>
    /\ \E j \in DOMAIN RunResults :
          /\ RunResults[j].affectedInstances = <<"a">>
          /\ ValueOf(RunResults[j].values, "b") = MISSING

\* The active comparison type names neither an identifier field nor a
\* comparison field.
Malformed ==
    LET found == FindCustomType(customTypes, comparisonType)
    IN  /\ found # <<>>
        /\ found[1].identifierField \in {null, ""}
        /\ found[1].comparisonFields = <<>>

\* C12: with a malformed comparison type active no session is created.
C12_MalformedTypeIsRefused == Malformed => sessions = <<>>

\* C13: a createComparisonSession with at least 2 instance ids appends one
\* session at the end of the list, leaves the sessions already there as they
\* were and in their order, and sets activeSessionId to the new session's id.
C13_CreateAppendsOne ==
    [][(\E ids \in SessionIds, data \in SessionData :
            /\ Len(ids) >= 2
            /\ createComparisonSession("run", ids, currentFetchEndpoint, data))
        => /\ Len(sessions') = Len(sessions) + 1
           /\ \A i \in DOMAIN sessions : sessions'[i] = sessions[i]
           /\ sessions'[Len(sessions')].instanceIds = lastRun'.instanceIds
           /\ activeSessionId' = sessions'[Len(sessions')].id]_vars

C13_Witness ==
    /\ Len(sessions) = 2
    /\ sessions[1].id # sessions[2].id
    /\ sessions[1].results # sessions[2].results
    /\ activeSessionId = sessions[2].id

\* C14: no two sessions of the list have the same id.
C14_SessionIdsAreUnique ==
    \A i, j \in DOMAIN sessions : i # j => sessions[i].id # sessions[j].id

\* C15: deleteSession(id) removes the sessions with that id and keeps the
\* others as they were and in their order; activeSessionId becomes null if it
\* was id and is otherwise kept; when no session has the id nothing changes.
C15_DeleteRemovesThatSession ==
    [][\A t \in 1..MaxClock :
          deleteSession(ToString(t)) =>
             LET id == ToString(t)
                 kept == {i \in DOMAIN sessions : sessions[i].id # id}
             IN  /\ Len(sessions') = Cardinality(kept)
                 /\ \A i \in kept :
                       sessions'[Cardinality({k \in kept : k <= i})] = sessions[i]
                 /\ activeSessionId' = IF activeSessionId = id THEN null
                                       ELSE activeSessionId
                 /\ kept = DOMAIN sessions =>
                       /\ sessions' = sessions
                       /\ activeSessionId' = activeSessionId]_vars

C15_Witness ==
    /\ Len(sessions) = 1
    /\ Len(stored) = 2
    /\ sessions[1].id = "2"
    /\ activeSessionId = "2"

\* What a posted request writes for a path: the value at the path of the
\* object posted, or the CurrentValue of the record the path names in a
\* posted list of toggles; undefined when the path is not written.
Written(data, path) ==
    LET d == Get(data, "Data")
        items == SelectSeq(ObjectValues(d),
                           LAMBDA item : Get(item, "FeatureName") = Str(path[1]))
    IN  IF IsArray(d)
        THEN IF items = <<>> THEN Undefined ELSE Get(items[1], "CurrentValue")
        ELSE getValueAtPath(d, path)

\* C16: a migration writes, for every ticked path, the value the row of the
\* session records for the source instance, and writes nothing for a path
\* whose recorded value is MISSING, whatever was fetched since.
C16_MigrationWritesRecordedValues ==
    posted # NoPost =>
        \A i \in DOMAIN posted.selected :
            LET path == posted.selected[i]
                rows == SelectSeq(sessions[1].results, LAMBDA r : r.path = path)
                recorded == ValueOf(rows[1].values, posted.source)
            IN  rows # <<>> =>
                    Written(posted.data, path) =
                        IF recorded = MISSING THEN Undefined ELSE recorded

\* C17: a comparison started after the fetch of an instance was rejected has
\* no payload for that instance and MISSING for it in every row, and has the
\* stored payload of every instance whose fetch succeeded.
C17_RejectedFetchIsAbsent ==
    [][(sessions = <<>> /\ sessions' # <<>>) =>
          \A n \in DOMAIN selectedInstances :
              LET id == selectedInstances[n]
              IN  /\ status[id] = "error" =>
                        /\ Get(lastRun'.instanceData, id) = Undefined
                        /\ \A j \in DOMAIN sessions'[1].results :
                              ValueOf(sessions'[1].results[j].values, id) = MISSING
                  /\ status[id] = "connected" =>
                        Get(lastRun'.instanceData, id)
                            = Get(Get(instancesData, id), "data")]_vars

\* C18: with a base that holds a unit, the unit is reported exactly when some
\* other instance lacks it or holds a value that is not the base's value
\* (generic, custom object and custom array comparisons).
C18_BaseRelativeDetection ==
    (Ran /\ baseInstanceId # null /\ RunMode # "featureToggle") =>
        \A u \in RunUnits :
            Holds(baseInstanceId, u) =>
                (RowsFor(u) # {} <=>
                    \E n \in DOMAIN RunIds :
                        /\ RunIds[n] # baseInstanceId
                        /\ \/ ~Holds(RunIds[n], u)
                           \/ ~JsonEqual(Held(RunIds[n], u), Held(baseInstanceId, u)))

\* The serialized value of unit u in instance id, the serialized sentinel when
\* the instance lacks the unit.
Serialized(id, u) == IF Holds(id, u) THEN Stringify(Held(id, u)) ELSE Stringify(MISSING)

\* C19: with a base that lacks a unit, the unit is reported exactly when more
\* than one distinct serialized value, the sentinel counted, occurs among the
\* listed instances, and a row for a unit some other instance holds is added.
C19_BaseMissingFallsBack ==
    (Ran /\ baseInstanceId # null) =>
        \A u \in RunUnits :
            ~Holds(baseInstanceId, u) =>
                /\ RowsFor(u) # {} <=>
                      Cardinality({Serialized(RunIds[n], u) : n \in DOMAIN RunIds}) > 1
                /\ (\E n \in DOMAIN RunIds : Holds(RunIds[n], u)) =>
                      \A j \in RowsFor(u) : RunResults[j].type = "added"

C19_Witness ==
    /\ Ran
    /\ RunMode = "generic"
    /\ baseInstanceId = "a"
    /\ Get(RunData, "a") # Undefined
    /\ ~Holds("a", <<"y">>)
    /\ Holds("b", <<"y">>)
    /\ \E j \in RowsFor(<<"y">>) : RunResults[j].type = "added"

\* C20: in the feature toggle and custom array comparisons an item that some
\* listed instance holds and some other lacks is reported, with or without a
\* base.
C20_PartialPresenceIsReported ==
    (Ran /\ RunMode \in {"featureToggle", "customArray"}) =>
        \A u \in RunUnits :
            (/\ \E n \in DOMAIN RunIds : Holds(RunIds[n], u)
             /\ \E n \in DOMAIN RunIds : ~Holds(RunIds[n], u))
            => RowsFor(u) # {}

C20_Witness ==
    /\ Ran
    /\ RunMode = "customArray"
    /\ baseInstanceId = "a"
    /\ Holds("a", <<"f2">>)
    /\ Get(RunData, "b") # Undefined
    /\ ~Holds("b", <<"f2">>)
    /\ RowsFor(<<"f2">>) # {}

\* The field a record of the run is identified by.
IdentifierFieldOfRun ==
    IF RunMode = "featureToggle" THEN "FeatureName"
    ELSE FindCustomType(customTypes, comparisonType)[1].identifierField

\* A record whose identifier field is absent, null or the empty string.
Unidentified(item) ==
    Get(item, IdentifierFieldOfRun) \in {Undefined, JsNull, Str("")}

\* The payloads of the run with the unidentified records taken out of the
\* arrays.
WithoutUnidentified(data) ==
    Obj([n \in DOMAIN data.kv |->
            LET kept == SelectSeq(ObjectValues(data.kv[n].v),
                                  LAMBDA item : ~Unidentified(item))
            IN  Prop(data.kv[n].k,
                     Arr([i \in DOMAIN kept |-> Prop(ToString(i - 1), kept[i])]))])

\* C21: in the feature-toggle and the custom array comparison a record whose
\* identifier field is the empty string, null or absent is left out: the
\* rows of the run are the rows of the same run without these records.
C21_UnidentifiedRecordsAreExcluded ==
    (Ran /\ RunMode \in {"featureToggle", "customArray"}) =>
        RunResults = Compare(comparisonType, customTypes, baseInstanceId, RunIds,
                             WithoutUnidentified(RunData))

\* C22: when an instance's array holds several records with one identifier,
\* the row of that identifier shows for the instance what the last of them
\* holds, and no identifier has more than one row.
C22_LastRecordWins ==
    (Ran /\ RunMode \in {"featureToggle", "customArray"}) =>
        \A u \in RunUnits :
            /\ Cardinality(RowsFor(u)) <= 1
            /\ \A j \in RowsFor(u), n \in DOMAIN RunIds :
                  Cardinality(RecordsOf(RunIds[n], u)) >= 2 =>
                      ValueOf(RunResults[j].values, RunIds[n]) = Held(RunIds[n], u)

C22_Witness ==
    /\ Ran
    /\ RunMode \in {"featureToggle", "customArray"}
    /\ \E n \in DOMAIN RunIds : Cardinality(RecordsOf(RunIds[n], <<"f1">>)) >= 2
    /\ RowsFor(<<"f1">>) # {}

\* The paths of the keys of v reached through plain objects only.
RECURSIVE ObjectPaths(_)
ObjectPaths(v) ==
    IF v.t # "object" THEN {}
    ELSE UNION {{Segs(k)} \cup {Segs(k) \o p : p \in ObjectPaths(Get(v, k))} :
                   k \in Range(Keys(v))}

\* The payloads the generic comparison collects its paths from.
RunObjects == ObjectValues(GivenData(RunIds, RunData))

\* C23: collectPaths returns, each once, exactly the paths of the keys that
\* some payload reaches through plain objects: a path of one payload only is
\* returned, an object-valued key is returned and descended into, an array
\* or a primitive is a leaf; the rows of the generic run are about these
\* paths only.
C23_PathsAreTheObjectKeys ==
    (Ran /\ RunMode = "generic") =>
        LET paths == collectPaths(RunObjects)
        IN  /\ Range(paths) = UNION {ObjectPaths(RunObjects[i]) : i \in DOMAIN RunObjects}
            /\ \A i, j \in DOMAIN paths : i # j => paths[i] # paths[j]
            /\ \A j \in DOMAIN RunResults : RunResults[j].path \in Range(paths)

C23_Witness ==
    /\ Ran
    /\ RunMode = "generic"
    /\ Len(RunObjects) = 2
    /\ IsArray(Get(RunObjects[1], "x"))
    /\ <<"x", "p", "q">> \in Range(collectPaths(RunObjects))
    /\ <<"x", "p", "q">> \notin ObjectPaths(RunObjects[1])

\* The configured comparison fields of the run's custom type, as paths.
RunFields ==
    LET fields == FindCustomType(customTypes, comparisonType)[1].comparisonFields
    IN  [i \in DOMAIN fields |-> Segs(fields[i])]

\* C24: a custom type with comparison fields and no identifier field reports
\* configured fields only, and its rows follow the configured order: the row
\* paths are a subsequence of comparisonFields.
C24_RowsFollowConfiguredFields ==
    (Ran /\ RunMode = "customObject") =>
        \E at \in [DOMAIN RunResults -> DOMAIN RunFields] :
            /\ \A j \in DOMAIN RunResults : RunResults[j].path = RunFields[at[j]]
            /\ \A j, k \in DOMAIN RunResults : j < k => at[j] < at[k]

C24_Witness ==
    /\ Ran
    /\ RunMode = "customObject"
    /\ Len(RunResults) = 2
    /\ RunResults[1].path = <<"y">>
    /\ RunResults[2].path = <<"x">>
    /\ Len(RunObjects) = 2
    /\ Get(RunObjects[1], "z") # Get(RunObjects[2], "z")
    /\ Keys(RunObjects[1]) = <<"x", "y">>

\* The sessions of the list the active pointer names.
ActiveSessions == {i \in DOMAIN sessions : sessions[i].id = activeSessionId}

\* C25: activeSessionId is null or the id of a session of the list, and at
\* most one session of the list is the active one.
C25_ActivePointerNamesOneSession ==
    /\ activeSessionId # null => ActiveSessions # {}
    /\ Cardinality(ActiveSessions) <= 1

\* C26: baseInstanceId is null or one of selectedInstances (setBaseInstanceId
\* being dispatched with ids of the selection only): a selection that drops
\* the base resets it to null, and no comparison runs against a base that is
\* not among the instances compared.
C26_BaseIsSelected ==
    /\ baseInstanceId = null \/ baseInstanceId \in Range(selectedInstances)
    /\ Ran => (baseInstanceId = null \/ baseInstanceId \in Range(RunIds))

C26_Witness ==
    /\ Ran
    /\ baseInstanceId = "c"
    /\ RunIds = <<"c", "a", "b">>

\* C27: while a fetchInstanceData or postInstanceData request is in flight,
\* loading is true: the completion of one request does not clear it while
\* others are pending.
C27_LoadingWhileInFlight == inFlight # {} => loading

\* C29: the request handleMigration posts is never addressed to the instance
\* the values were taken from, whatever the order in which source and target
\* were picked.
C29_TargetIsNotTheSource == posted # NoPost => posted.target # posted.source

\* Instance id is configured and active.
ConfiguredAndActive(id) ==
    \E i \in DOMAIN instances : instances[i].id = id /\ instances[i].isActive

\* C28: every id in selectedInstances is the id of a configured, active
\* instance, and so is every id of a session when it is created.
C28_SelectionIsConfiguredAndActive ==
    /\ \A id \in Range(selectedInstances) : ConfiguredAndActive(id)
    /\ Ran => \A id \in Range(RunIds) : id \in Range(selectedInstances)

====
